---- MODULE Spec2Model ----
(***************************************************************************)
(* Model of api/generate-images.ts: the text-overlay renderers             *)
(* (drawTextWithShadow, generateAnimalImage, generateBrainImage) and the   *)
(* request handler that runs the two renders under Promise.all.            *)
(*                                                                         *)
(* A profile (animalData / brainData) is the sequence of [name, value]     *)
(* pairs that Object.entries yields: the keys in the order in which the    *)
(* submitted JSON object lists them.  A drawing surface is a record of the *)
(* 2d context's text/shadow state plus the list of fillText calls made on  *)
(* it, each call recorded with the state it was drawn under.               *)
(***************************************************************************)
EXTENDS Integers, Sequences, FiniteSets, TLC

VARIABLES
    method,      \* req.method
    body,        \* req.body
    pc,          \* the handler: "start", "awaiting" (at the await), "done"
    animalP,     \* the promise generateAnimalImage returned
    animalRun,   \* its locals: the loop index and highestAnimalName
    animalCtx,   \* its drawing surface
    brainP,      \* the promise generateBrainImage returned
    brainRun,    \* its local: the loop index
    brainCtx,    \* its drawing surface
    allP,        \* the promise Promise.all returned
    responses,   \* the responses sent on res, in order
    order        \* the order in which the renders settled and the response went out

vars == <<method, body, pc, animalP, animalRun, animalCtx, brainP, brainRun,
          brainCtx, allP, responses, order>>

(***************************************************************************)
(* Bounds of the model.                                                    *)
(***************************************************************************)
\* largest percentage value of a profile entry
MaxPct == 1
\* most entries of a profile in the renderer specifications
MaxEntries == 4
\* most entries of a profile in the handler specification
MaxHandlerEntries == 2

\* Entry values: -1 stands for the values that are not above the initial
\* running maximum; 0..MaxPct are the non-negative percentages.
Pcts == -1..MaxPct

(***************************************************************************)
(* Keys.                                                                   *)
(***************************************************************************)
\* interface AnimalData, in declaration order
AnimalKeyOrder == <<"lobo", "aguia", "tubarao", "gato">>
AnimalKeys == {AnimalKeyOrder[i] : i \in 1..Len(AnimalKeyOrder)}

\* interface BrainData, in declaration order
BrainKeyOrder == <<"pensante", "atuante", "razao", "emocao">>
BrainKeys == {BrainKeyOrder[i] : i \in 1..Len(BrainKeyOrder)}

\* A key no table and no prototype knows.
UnknownKeys == {"extra"}

\* The position tables are object literals, so a lookup positions[name]
\* that misses the table's own keys goes on to Object.prototype; these
\* names are found there ("constructor" stands for all of them).
ObjectPrototypeKeys == {"constructor"}

\* highestAnimalName before any entry beat the running maximum
Null == "<null>"

(***************************************************************************)
(* Profiles: what Object.entries(data) yields for a JSON object.           *)
(***************************************************************************)
Injective(s) == \A i, j \in 1..Len(s) : i # j => s[i] # s[j]

\* Object.entries of the object with keys ks (in that order) and values vs
Entries(ks, vs) == [i \in 1..Len(ks) |-> <<ks[i], vs[i]>>]

KeysOf(entries) == {entries[i][1] : i \in 1..Len(entries)}

ValueOf(entries, name) ==
    LET i == CHOOSE j \in 1..Len(entries) : entries[j][1] = name
    IN entries[i][2]

(***************************************************************************)
(* The drawing surface and drawTextWithShadow.                             *)
(***************************************************************************)
\* blur radius of the drop shadow
ShadowBlurOn == 10

\* blur radius after the reset
ShadowBlurOff == 0

\* A 2d context as canvas.getContext('2d') hands it out: no shadow, no
\* fillText call made yet.
NewContext ==
    [font |-> "10px sans-serif", fillStyle |-> "#000000",
     textAlign |-> "start", textBaseline |-> "alphabetic",
     shadowColor |-> "transparent", shadowBlur |-> ShadowBlurOff,
     shadowOffsetX |-> 0, shadowOffsetY |-> 0,
     calls |-> <<>>]

\* ctx.font = ...; ctx.fillStyle = ...; ctx.textAlign = ...; ctx.textBaseline = ...
\* A textAlign that is no alignment keyword (undefined) is ignored by the
\* context and leaves the previous alignment.
SetTextState(ctx, font, fillStyle, textAlign, textBaseline) ==
    [ctx EXCEPT !.font = font,
                !.fillStyle = fillStyle,
                !.textAlign = IF textAlign \in {"left", "center", "right", "start", "end"}
                              THEN textAlign ELSE @,
                !.textBaseline = textBaseline]

\* ctx.shadowColor = 'rgba(0, 0, 0, 0.8)'; ctx.shadowBlur = 10; offsets 0
SetShadow(ctx) ==
    [ctx EXCEPT !.shadowColor = "rgba(0, 0, 0, 0.8)",
                !.shadowBlur = ShadowBlurOn,
                !.shadowOffsetX = 0,
                !.shadowOffsetY = 0]

\* ctx.fillText(text, x, y): the call, recorded with the arguments it was
\* given and the context state it was drawn under.  at is <<x, y>>, or <<>>
\* when both coordinates are undefined.
FillText(ctx, text, at, textAlign) ==
    [ctx EXCEPT !.calls = Append(@,
        [text |-> text, at |-> at, align |-> textAlign,
         font |-> ctx.font, fillStyle |-> ctx.fillStyle,
         textBaseline |-> ctx.textBaseline,
         shadowColor |-> ctx.shadowColor, shadowBlur |-> ctx.shadowBlur,
         shadowOffsetX |-> ctx.shadowOffsetX,
         shadowOffsetY |-> ctx.shadowOffsetY])]

\* A drawTextWithShadow that forgets the reset.
ResetShadowOmitted(ctx) == ctx

\* ctx.shadowColor = 'transparent'; ctx.shadowBlur = 0
ResetShadow(ctx) ==
    [ctx EXCEPT !.shadowColor = "transparent", !.shadowBlur = ShadowBlurOff]

drawTextWithShadow(ctx, text, at, font, fillStyle, textAlign, textBaseline) ==
    ResetShadow(
      FillText(
        SetShadow(SetTextState(ctx, font, fillStyle, textAlign, textBaseline)),
        text, at, textAlign))

\* `bold ${fontSize}px ${fontName}`
Font(fontSize) == [weight |-> "bold", size |-> fontSize, family |-> "sans-serif"]

\* `${percentage}%`
PercentText(percentage) == <<percentage, "%">>

\* positions[name] on an object literal: the table's own entry, else what
\* Object.prototype holds under that name (a function: truthy, with no x, y
\* or align property), else undefined.
Lookup(positions, name) ==
    IF name \in DOMAIN positions THEN [kind |-> "entry", value |-> positions[name]]
    ELSE IF name \in ObjectPrototypeKeys THEN [kind |-> "inherited"]
    ELSE [kind |-> "undefined"]

\* pos.x, pos.y of a truthy lookup: <<x, y>>, or <<>> when both are undefined
At(pos) == IF pos.kind = "entry" THEN <<pos.value.x, pos.value.y>> ELSE <<>>

\* pos.align of a truthy lookup
Align(pos) == IF pos.kind = "entry" THEN pos.value.align ELSE "undefined"

\* What a renderer's catch block throws: the component prefix and the cause.
Wrapped(prefix, cause) == [prefix |-> prefix, cause |-> cause]
NoReason == Wrapped("", "")

Idle == [state |-> "idle", reason |-> NoReason]
Loading == [state |-> "loading", reason |-> NoReason]
Drawing == [state |-> "drawing", reason |-> NoReason]
Resolved == [state |-> "resolved", reason |-> NoReason]
Rejected(reason) == [state |-> "rejected", reason |-> reason]

Settled(p) == p.state \in {"resolved", "rejected"}

(***************************************************************************)
(* generateAnimalImage.                                                    *)
(***************************************************************************)
\* let maxPercentage = -1
MaxPercentageInit == -1

normalFontSize == 36
highestFontSize == 40
normalColor == "#FFFFFF"
highestColor == "#FFED00"
AnimalPrefix == "Error during animal image processing: "

\* The first loop: the fold with a strict > over Object.entries(data).
RECURSIVE HighestFrom(_, _, _, _)
HighestFrom(entries, i, maxPercentage, highestAnimalName) ==
    IF i > Len(entries) THEN highestAnimalName
    ELSE IF entries[i][2] > maxPercentage
      THEN HighestFrom(entries, i + 1, entries[i][2], entries[i][1])
    ELSE HighestFrom(entries, i + 1, maxPercentage, highestAnimalName)

\* A running maximum that starts at 0 instead of below every valid value.
HighestAnimalNameFromZero(entries) == HighestFrom(entries, 1, 0, Null)

\* let highestAnimalName = null; let maxPercentage = -1; for (...) { ... }
HighestAnimalName(entries) == HighestFrom(entries, 1, MaxPercentageInit, Null)

AnimalPositions ==
    [lobo    |-> [x |-> 120, y |-> 280],
     aguia   |-> [x |-> 420, y |-> 280],
     tubarao |-> [x |-> 120, y |-> 630],
     gato    |-> [x |-> 420, y |-> 630]]

\* One pass of the second loop's body for an entry whose lookup did not throw.
AnimalDrawEntry(ctx, entry, highestAnimalName, pos) ==
    LET isHighest == entry[1] = highestAnimalName
        fontSize == IF isHighest THEN highestFontSize ELSE normalFontSize
        color == IF isHighest THEN highestColor ELSE normalColor
    IN drawTextWithShadow(ctx, PercentText(entry[2]), At(pos), Font(fontSize),
                          color, "right", "middle")

(***************************************************************************)
(* generateBrainImage.                                                     *)
(***************************************************************************)
brainFontSize == 44
brainColor == "#FFFFFF"
BrainPrefix == "Error during brain image processing: "

\* A table whose razao entry carries emocao's x.
BrainPositionsSlip ==
    [pensante |-> [x |-> 320, y |-> 240, align |-> "center"],
     atuante  |-> [x |-> 320, y |-> 780, align |-> "center"],
     razao    |-> [x |-> 600, y |-> 450, align |-> "left"],
     emocao   |-> [x |-> 600, y |-> 450, align |-> "right"]]

BrainPositions ==
    [pensante |-> [x |-> 320, y |-> 240, align |-> "center"],
     atuante  |-> [x |-> 320, y |-> 780, align |-> "center"],
     razao    |-> [x |-> 48,  y |-> 450, align |-> "left"],
     emocao   |-> [x |-> 600, y |-> 450, align |-> "right"]]

\* One pass of the loop's body: the entry is drawn when its lookup is truthy
\* and skipped otherwise.
BrainDrawEntry(ctx, entry) ==
    LET pos == Lookup(BrainPositions, entry[1])
    IN IF pos.kind # "undefined"
         THEN drawTextWithShadow(ctx, PercentText(entry[2]), At(pos),
                                 Font(brainFontSize), brainColor, Align(pos),
                                 "middle")
       ELSE ctx

(***************************************************************************)
(* The request.                                                            *)
(***************************************************************************)
Methods == {"GET", "POST"}

\* A dataset of the body: absent (undefined, or any falsy value), or an
\* object with its entries.
Missing == [present |-> FALSE, entries |-> <<>>]
Data(entries) == [present |-> TRUE, entries |-> entries]

\* req.body is undefined when the request carries no parsed body (no
\* content type, or the JSON text null).
NoBody == [present |-> FALSE, animalData |-> Missing, brainData |-> Missing]
Body(a, b) == [present |-> TRUE, animalData |-> a, brainData |-> b]

(***************************************************************************)
(* The responses.                                                          *)
(***************************************************************************)
Response(status, error, details, images) ==
    [status |-> status, error |-> error, details |-> details, images |-> images]

MethodNotAllowedResponse == Response(405, "Method Not Allowed", NoReason, {})

BadRequestResponse ==
    Response(400, "Request body must contain \"animalData\" and \"brainData\" objects.",
             NoReason, {})

OkResponse == Response(200, "", NoReason, {"animalImage", "brainImage"})

\* details: error.message of what the try block threw
ErrorResponse(reason) == Response(500, "Failed to generate images.", reason, {})

\* What destructuring an undefined req.body throws.
DestructureError == Wrapped("", "TypeError: Cannot destructure property 'animalData'")

\* What a rejected loadImage carries.
LoadError == "image load failed"

\* What destructuring an undefined positions[name] throws.
PositionError == "TypeError: Cannot destructure property 'x'"

(***************************************************************************)
(* The handler's path through its guards.                                  *)
(***************************************************************************)
\* A handler that validates the body before it looks at the method.
RouteBodyFirst(m, b) ==
    IF ~b.present THEN "throw"
    ELSE IF ~b.animalData.present \/ ~b.brainData.present THEN "400"
    ELSE IF m # "POST" THEN "405"
    ELSE "run"

Route(m, b) ==
    IF m # "POST" THEN "405"
    ELSE IF ~b.present THEN "throw"
    ELSE IF ~b.animalData.present \/ ~b.brainData.present THEN "400"
    ELSE "run"

\* Renders called one after the other, the second only after the first
\* was awaited.
SequentialStart == [animal |-> Loading, brain |-> Idle]

\* The argument list of Promise.all: both renders are called, and each runs
\* to its await of loadImage, before Promise.all is.
ConcurrentStart == [animal |-> Loading, brain |-> Loading]

\* A combinator that waits for both and fulfils whatever their outcome.
PromiseAllSettled(all, a, b) ==
    IF all.state # "pending" THEN all
    ELSE IF Settled(a) /\ Settled(b) THEN [state |-> "fulfilled", reason |-> NoReason]
    ELSE all

\* Promise.all after one of its inputs changed: it rejects with the first
\* rejection, fulfils once both inputs resolved, and never changes after.
PromiseAll(all, a, b) ==
    IF all.state # "pending" THEN all
    ELSE IF a.state = "rejected" THEN [state |-> "rejected", reason |-> a.reason]
    ELSE IF b.state = "rejected" THEN [state |-> "rejected", reason |-> b.reason]
    ELSE IF a.state = "resolved" /\ b.state = "resolved"
      THEN [state |-> "fulfilled", reason |-> NoReason]
    ELSE all

PendingAll == [state |-> "pending", reason |-> NoReason]

(***************************************************************************)
(* Handler actions.                                                        *)
(***************************************************************************)
Respond(r) ==
    /\ responses' = Append(responses, r)
    /\ order' = Append(order, "response")
    /\ pc' = "done"

RendersUntouched ==
    UNCHANGED <<animalP, animalRun, animalCtx, brainP, brainRun, brainCtx, allP>>

\* if (req.method !== 'POST') return res.status(405)...
MethodNotAllowed ==
    /\ pc = "start"
    /\ Route(method, body) = "405"
    /\ Respond(MethodNotAllowedResponse)
    /\ RendersUntouched
    /\ UNCHANGED <<method, body>>

\* const { animalData, brainData } = req.body throws inside the try block
DestructureThrows ==
    /\ pc = "start"
    /\ Route(method, body) = "throw"
    /\ Respond(ErrorResponse(DestructureError))
    /\ RendersUntouched
    /\ UNCHANGED <<method, body>>

\* if (!animalData || !brainData) return res.status(400)...
BadRequest ==
    /\ pc = "start"
    /\ Route(method, body) = "400"
    /\ Respond(BadRequestResponse)
    /\ RendersUntouched
    /\ UNCHANGED <<method, body>>

\* await Promise.all([generateAnimalImage(...), generateBrainImage(...)])
StartRenders ==
    /\ pc = "start"
    /\ Route(method, body) = "run"
    /\ animalP' = ConcurrentStart.animal
    /\ brainP' = ConcurrentStart.brain
    /\ allP' = PendingAll
    /\ pc' = "awaiting"
    /\ UNCHANGED <<method, body, animalRun, animalCtx, brainRun, brainCtx,
                   responses, order>>

\* res.status(200).json({ animalImage, brainImage })
RespondOk ==
    /\ pc = "awaiting"
    /\ allP.state = "fulfilled"
    /\ Respond(OkResponse)
    /\ RendersUntouched
    /\ UNCHANGED <<method, body>>

\* catch (error): res.status(500).json({ error, details })
RespondError ==
    /\ pc = "awaiting"
    /\ allP.state = "rejected"
    /\ Respond(ErrorResponse(allP.reason))
    /\ RendersUntouched
    /\ UNCHANGED <<method, body>>

(***************************************************************************)
(* generateAnimalImage actions.                                            *)
(***************************************************************************)
AnimalSettle(p) ==
    /\ animalP' = p
    /\ allP' = PromiseAll(allP, p, brainP)
    /\ order' = Append(order, "animal")

AnimalFrame == UNCHANGED <<method, body, pc, brainP, brainRun, brainCtx, responses>>

\* loadImage resolved: the surface is created and the maximum is found
AnimalLoaded ==
    /\ animalP.state = "loading"
    /\ animalP' = Drawing
    /\ animalCtx' = NewContext
    /\ animalRun' = [i |-> 1,
                     highestAnimalName |-> HighestAnimalName(body.animalData.entries)]
    /\ UNCHANGED <<allP, order>>
    /\ AnimalFrame

\* loadImage rejected: the catch block wraps and rethrows
AnimalLoadFailed ==
    /\ animalP.state = "loading"
    /\ AnimalSettle(Rejected(Wrapped(AnimalPrefix, LoadError)))
    /\ UNCHANGED <<animalRun, animalCtx>>
    /\ AnimalFrame

\* one iteration of the drawing loop
AnimalDraw ==
    /\ animalP.state = "drawing"
    /\ animalRun.i <= Len(body.animalData.entries)
    /\ LET entry == body.animalData.entries[animalRun.i]
           pos == Lookup(AnimalPositions, entry[1])
       IN IF pos.kind = "undefined"
            THEN /\ AnimalSettle(Rejected(Wrapped(AnimalPrefix, PositionError)))
                 /\ UNCHANGED <<animalRun, animalCtx>>
          ELSE /\ animalCtx' = AnimalDrawEntry(animalCtx, entry,
                                               animalRun.highestAnimalName, pos)
               /\ animalRun' = [animalRun EXCEPT !.i = @ + 1]
               /\ UNCHANGED <<animalP, allP, order>>
    /\ AnimalFrame

\* return canvas.toDataURL('image/png')
AnimalDone ==
    /\ animalP.state = "drawing"
    /\ animalRun.i > Len(body.animalData.entries)
    /\ AnimalSettle(Resolved)
    /\ UNCHANGED <<animalRun, animalCtx>>
    /\ AnimalFrame

(***************************************************************************)
(* generateBrainImage actions.                                             *)
(***************************************************************************)
BrainSettle(p) ==
    /\ brainP' = p
    /\ allP' = PromiseAll(allP, animalP, p)
    /\ order' = Append(order, "brain")

BrainFrame == UNCHANGED <<method, body, pc, animalP, animalRun, animalCtx, responses>>

BrainLoaded ==
    /\ brainP.state = "loading"
    /\ brainP' = Drawing
    /\ brainCtx' = NewContext
    /\ brainRun' = [i |-> 1]
    /\ UNCHANGED <<allP, order>>
    /\ BrainFrame

BrainLoadFailed ==
    /\ brainP.state = "loading"
    /\ BrainSettle(Rejected(Wrapped(BrainPrefix, LoadError)))
    /\ UNCHANGED <<brainRun, brainCtx>>
    /\ BrainFrame

BrainDraw ==
    /\ brainP.state = "drawing"
    /\ brainRun.i <= Len(body.brainData.entries)
    /\ brainCtx' = BrainDrawEntry(brainCtx, body.brainData.entries[brainRun.i])
    /\ brainRun' = [brainRun EXCEPT !.i = @ + 1]
    /\ UNCHANGED <<brainP, allP, order>>
    /\ BrainFrame

BrainDone ==
    /\ brainP.state = "drawing"
    /\ brainRun.i > Len(body.brainData.entries)
    /\ BrainSettle(Resolved)
    /\ UNCHANGED <<brainRun, brainCtx>>
    /\ BrainFrame

(***************************************************************************)
(* Specifications.                                                         *)
(***************************************************************************)
\* The state after construction, for a request with the given method and body.
Fresh(m, b) ==
    /\ method = m
    /\ body = b
    /\ pc = "start"
    /\ animalP = Idle
    /\ animalRun = [i |-> 1, highestAnimalName |-> Null]
    /\ animalCtx = NewContext
    /\ brainP = Idle
    /\ brainRun = [i |-> 1]
    /\ brainCtx = NewContext
    /\ allP = PendingAll
    /\ responses = <<>>
    /\ order = <<>>

\* The state in which a render has been called with its dataset.
Called(a, b) ==
    /\ method = "POST"
    /\ body = Body(Data(a), Data(b))
    /\ pc = "awaiting"
    /\ animalP = ConcurrentStart.animal
    /\ animalRun = [i |-> 1, highestAnimalName |-> Null]
    /\ animalCtx = NewContext
    /\ brainP = ConcurrentStart.brain
    /\ brainRun = [i |-> 1]
    /\ brainCtx = NewContext
    /\ allP = PendingAll
    /\ responses = <<>>
    /\ order = <<>>

\* A full profile of each kind, in declaration order.
FullProfile(keyOrder) == [i \in 1..Len(keyOrder) |-> <<keyOrder[i], 0>>]

\* A dataset of the handler specification: absent, or a short profile over
\* one table key, one unknown key and one inherited name, all values 0.
HandlerKeys(tableKey) == {tableKey} \cup UnknownKeys \cup ObjectPrototypeKeys

HandlerData(tableKey) ==
    {Missing} \cup
    UNION {{Data(Entries(ks, [i \in 1..n |-> 0])) :
              ks \in {s \in [1..n -> HandlerKeys(tableKey)] : Injective(s)}}
           : n \in 0..MaxHandlerEntries}

\* Spec: the handler, over every method, body shape and interleaving.
Init ==
    \E m \in Methods :
      \/ Fresh(m, NoBody)
      \/ \E a \in HandlerData(AnimalKeyOrder[1]) :
           \E b \in HandlerData(BrainKeyOrder[1]) :
             Fresh(m, Body(a, b))

Next ==
    \/ MethodNotAllowed
    \/ DestructureThrows
    \/ BadRequest
    \/ StartRenders
    \/ RespondOk
    \/ RespondError
    \/ AnimalLoaded
    \/ AnimalLoadFailed
    \/ AnimalDraw
    \/ AnimalDone
    \/ BrainLoaded
    \/ BrainLoadFailed
    \/ BrainDraw
    \/ BrainDone

Spec == Init /\ [][Next]_vars

\* SpecAnimal: generateAnimalImage over every profile of up to MaxEntries
\* entries, in every key order.
InitAnimal ==
    \E n \in 0..MaxEntries :
      \E ks \in [1..n -> AnimalKeys \cup UnknownKeys] :
        \E vs \in [1..n -> Pcts] :
          /\ Injective(ks)
          /\ Called(Entries(ks, vs), FullProfile(BrainKeyOrder))

NextAnimal ==
    \/ AnimalLoaded
    \/ AnimalLoadFailed
    \/ AnimalDraw
    \/ AnimalDone

SpecAnimal == InitAnimal /\ [][NextAnimal]_vars

\* SpecBrain: generateBrainImage over every profile of up to MaxEntries
\* entries, in every key order.
InitBrain ==
    \E n \in 0..MaxEntries :
      \E ks \in [1..n -> BrainKeys \cup UnknownKeys] :
        \E vs \in [1..n -> Pcts] :
          /\ Injective(ks)
          /\ Called(FullProfile(AnimalKeyOrder), Entries(ks, vs))

NextBrain ==
    \/ BrainLoaded
    \/ BrainLoadFailed
    \/ BrainDraw
    \/ BrainDone

SpecBrain == InitBrain /\ [][NextBrain]_vars

(***************************************************************************)
(* Properties.                                                             *)
(***************************************************************************)
animalEntries == body.animalData.entries
brainEntries == body.brainData.entries

\* The profile has exactly the four keys of its kind, in some order.
HasExactly(entries, keys) == Len(entries) = Cardinality(keys) /\ KeysOf(entries) = keys

NonNegative(entries) == \A i \in 1..Len(entries) : entries[i][2] >= 0

Emphasized(call) == call.font = Font(40) /\ call.fillStyle = "#FFED00"
Plain(call) == call.font = Font(36) /\ call.fillStyle = "#FFFFFF"

\* The render of a four-key profile is through: every entry has its call.
AnimalRendered ==
    /\ animalP.state = "resolved"
    /\ HasExactly(animalEntries, AnimalKeys)
    /\ NonNegative(animalEntries)

\* C1: when generateAnimalImage has rendered a profile with exactly the four
\* keys and non-negative values, each entry has one fillText call, exactly
\* one call has size 40 and color #FFED00, it belongs to an entry of
\* greatest value, an entry whose value is strictly greater than every
\* other is that one, and every other call has size 36 and color #FFFFFF.
C1_MaxEntryEmphasized ==
    AnimalRendered =>
      LET e == animalEntries
          c == animalCtx.calls
      IN /\ Len(c) = Len(e)
         /\ \A i \in 1..Len(e) :
              /\ c[i].text = PercentText(e[i][2])
              /\ Emphasized(c[i]) \/ Plain(c[i])
              /\ Emphasized(c[i]) => \A j \in 1..Len(e) : e[j][2] <= e[i][2]
              /\ (\A j \in 1..Len(e) : j # i => e[j][2] < e[i][2]) => Emphasized(c[i])
         /\ Cardinality({i \in 1..Len(e) : Emphasized(c[i])}) = 1

\* A rendered four-key profile with a strictly greatest value that is not
\* the first entry, and its call emphasized.
C1_Witness ==
    /\ AnimalRendered
    /\ \E i \in 2..Len(animalEntries) :
         /\ \A j \in 1..Len(animalEntries) :
              j # i => animalEntries[j][2] < animalEntries[i][2]
         /\ Emphasized(animalCtx.calls[i])

\* The first key, in the order lobo, aguia, tubarao, gato, whose value is
\* the greatest of the profile.
FirstMaxInKeyOrder(entries) ==
    LET isMax(k) == \A j \in 1..Len(entries) : entries[j][2] <= ValueOf(entries, k)
        first == CHOOSE i \in 1..Len(AnimalKeyOrder) :
                   /\ isMax(AnimalKeyOrder[i])
                   /\ \A j \in 1..(i - 1) : ~isMax(AnimalKeyOrder[j])
    IN AnimalKeyOrder[first]

\* C2: when generateAnimalImage has rendered a profile with exactly the four
\* keys and non-negative values, the emphasized call is that of the first
\* key in the order lobo, aguia, tubarao, gato that holds the greatest
\* value, in whatever order the submitted object lists its keys.
C2_TieGoesToFixedKeyOrder ==
    AnimalRendered =>
      \A i \in 1..Len(animalEntries) :
        Emphasized(animalCtx.calls[i]) <=>
          animalEntries[i][1] = FirstMaxInKeyOrder(animalEntries)

\* The handler has answered: one response is out.
Answered == pc = "done" /\ Len(responses) = 1

LacksDataset(b) == ~b.present \/ ~b.animalData.present \/ ~b.brainData.present

NeverRendered == animalP = Idle /\ brainP = Idle /\ animalCtx.calls = <<>> /\ brainCtx.calls = <<>>

\* C3: once the handler has finished a POST request whose payload lacks
\* animalData, brainData or both, the one response is the 400 with the
\* message of the validation, and neither renderer was invoked.
C3_MissingDatasetIs400 ==
    (pc = "done" /\ method = "POST" /\ LacksDataset(body)) =>
      /\ responses = <<[status |-> 400,
                        error |-> "Request body must contain \"animalData\" and \"brainData\" objects.",
                        details |-> NoReason, images |-> {}]>>
      /\ NeverRendered

\* C4: a request whose method is not POST never invokes a renderer, and once
\* the handler has finished it the one response is the 405 with error
\* 'Method Not Allowed', whatever the body holds or lacks.
C4_NonPostIs405 ==
    method # "POST" =>
      /\ NeverRendered
      /\ pc = "done" =>
           responses = <<[status |-> 405, error |-> "Method Not Allowed",
                          details |-> NoReason, images |-> {}]>>

\* A request that is not a POST and has no body at all, answered.
C4_Witness == method # "POST" /\ ~body.present /\ Answered

\* A POST request with both datasets: the one whose renders are started.
ValidPost ==
    method = "POST" /\ body.present /\ body.animalData.present /\ body.brainData.present

\* The render that failed first, by the order in which the renders settled.
FirstFailure ==
    LET failed(tag) == IF tag = "animal" THEN animalP.state = "rejected"
                       ELSE IF tag = "brain" THEN brainP.state = "rejected"
                       ELSE FALSE
        i == CHOOSE k \in 1..Len(order) :
               failed(order[k]) /\ \A j \in 1..(k - 1) : ~failed(order[j])
    IN order[i]

\* C5: once the handler has finished a valid POST request of which a render
\* failed, the one response is a 500 with error 'Failed to generate images.',
\* its details are the wrapped message of the render that failed first
\* ('Error during animal image processing: ' or 'Error during brain image
\* processing: ' and the cause), and it carries no image, whether or not the
\* other render succeeded.
C5_NoPartialSuccess ==
    (pc = "done" /\ ValidPost
       /\ (animalP.state = "rejected" \/ brainP.state = "rejected")) =>
      /\ Len(responses) = 1
      /\ responses[1].status = 500
      /\ responses[1].error = "Failed to generate images."
      /\ responses[1].images = {}
      /\ responses[1].details.cause \in {LoadError, PositionError}
      /\ FirstFailure = "animal" =>
           /\ responses[1].details.prefix = "Error during animal image processing: "
           /\ responses[1].details = animalP.reason
      /\ FirstFailure = "brain" =>
           /\ responses[1].details.prefix = "Error during brain image processing: "
           /\ responses[1].details = brainP.reason

\* The animal render succeeded, the brain render then failed on its load,
\* and the 500 is out.
C5_Witness ==
    /\ Answered
    /\ order = <<"animal", "brain", "response">>
    /\ animalP.state = "resolved"
    /\ brainP.state = "rejected"
    /\ responses[1].status = 500

\* C6: when generateBrainImage has rendered a profile with exactly the four
\* keys, each entry has exactly one fillText call, in bold sans-serif of
\* size 44, color #FFFFFF and middle baseline whatever its value, at the
\* coordinate and alignment of its key: pensante (320,240,center), atuante
\* (320,780,center), razao (48,450,left), emocao (600,450,right).
C6_BrainUniformStyle ==
    (brainP.state = "resolved" /\ HasExactly(brainEntries, BrainKeys)) =>
      LET e == brainEntries
          c == brainCtx.calls
          where == [pensante |-> <<320, 240, "center">>,
                    atuante  |-> <<320, 780, "center">>,
                    razao    |-> <<48, 450, "left">>,
                    emocao   |-> <<600, 450, "right">>]
      IN /\ Len(c) = Len(e)
         /\ \A i \in 1..Len(e) :
              /\ c[i].text = PercentText(e[i][2])
              /\ c[i].font = [weight |-> "bold", size |-> 44, family |-> "sans-serif"]
              /\ c[i].fillStyle = "#FFFFFF"
              /\ c[i].textBaseline = "middle"
              /\ c[i].at = <<where[e[i][1]][1], where[e[i][1]][2]>>
              /\ c[i].align = where[e[i][1]][3]

\* A rendered four-key brain profile whose values differ and whose keys are
\* not in declaration order.
C6_Witness ==
    /\ brainP.state = "resolved"
    /\ HasExactly(brainEntries, BrainKeys)
    /\ brainEntries[1][1] = "emocao"
    /\ brainEntries[1][2] < brainEntries[2][2]
    /\ Len(brainCtx.calls) = 4

ShadowOff(ctx) == ctx.shadowColor = "transparent" /\ ctx.shadowBlur = 0

ShadowOn(call) == call.shadowColor = "rgba(0, 0, 0, 0.8)" /\ call.shadowBlur = 10

\* C7: on each drawing surface the shadow is transparent with blur 0 before
\* the first drawTextWithShadow call, between any two calls, after a skipped
\* entry and at the end of the render, and every fillText was drawn under
\* the shadow rgba(0,0,0,0.8) with blur 10.
C7_ShadowDoesNotPersist ==
    /\ ShadowOff(animalCtx)
    /\ ShadowOff(brainCtx)
    /\ \A i \in 1..Len(animalCtx.calls) : ShadowOn(animalCtx.calls[i])
    /\ \A i \in 1..Len(brainCtx.calls) : ShadowOn(brainCtx.calls[i])

\* A brain render in its loop that drew an entry, skipped the next one and
\* has entries left to draw.
C7_Witness ==
    /\ brainP.state = "drawing"
    /\ brainRun.i = 3
    /\ brainRun.i <= Len(brainEntries)
    /\ Len(brainCtx.calls) = 1
    /\ brainEntries[2][1] \in UnknownKeys

\* How many of the first upto entries have a key that is in the table.
TableCalls(entries, upto, table) ==
    Cardinality({i \in 1..upto : entries[i][1] \in DOMAIN table})

\* C8: in generateBrainImage a key with no entry in the position table gets
\* no draw call: the calls made so far are as many as the entries passed
\* whose key is in the table, and a render that ran through its entries
\* succeeds.
C8_UnknownBrainKeySkipped ==
    brainP.state \in {"drawing", "resolved"} =>
      Len(brainCtx.calls) = TableCalls(brainEntries, brainRun.i - 1, BrainPositions)

\* C9: at most one response is ever sent and a finished handler has sent
\* exactly one; the two renders are started together, before the handler
\* awaits either; the response of a finished handler is the 200 with
\* animalImage and brainImage exactly when both renders succeeded; and a
\* render that settles after the response went out adds no response.
C9_OneResponse ==
    /\ Len(responses) <= 1
    /\ pc = "done" <=> Len(responses) = 1
    /\ (animalP # Idle \/ brainP # Idle \/ pc = "awaiting") =>
         (animalP # Idle /\ brainP # Idle)
    /\ pc = "done" =>
         /\ responses[1].status = 200 <=>
              (animalP.state = "resolved" /\ brainP.state = "resolved")
         /\ responses[1].status = 200 <=>
              responses[1].images = {"animalImage", "brainImage"}
         /\ responses[1].images \in {{}, {"animalImage", "brainImage"}}

\* The animal render failed, the 500 went out, and the brain render
\* finished after it: still one response.
C9_Witness ==
    /\ order = <<"animal", "response", "brain">>
    /\ animalP.state = "rejected"
    /\ brainP.state = "resolved"
    /\ Len(responses) = 1
    /\ responses[1].status = 500

\* The profile has a key that is not one of the table's four.
HasKeyOutsideTable(entries, table) ==
    \E i \in 1..Len(entries) : entries[i][1] \notin DOMAIN table

\* C10: a generateAnimalImage render of a profile with a key that is not in
\* its position table never succeeds: when it settles it is rejected with a
\* message that starts with 'Error during animal image processing: ', and
\* the finished request has status 500 and no image.
C10_UnknownAnimalKeyFails ==
    (ValidPost /\ HasKeyOutsideTable(animalEntries, AnimalPositions)) =>
      /\ animalP.state # "resolved"
      /\ animalP.state = "rejected" =>
           animalP.reason.prefix = "Error during animal image processing: "
      /\ pc = "done" => (responses[1].status = 500 /\ responses[1].images = {})

====
